---- MODULE Spec2Model ----
(***************************************************************************)
(* combine_tsv.py: a batch pipeline that merges the per-speaker *.tsv      *)
(* transcripts of the working directory into all.tsv, analyses the text    *)
(* and writes three charts and nlp_report.md.                              *)
(*                                                                         *)
(* The state is the working directory (the input files, the order in       *)
(* which the directory lists them, all.tsv, the figures folder and         *)
(* nlp_report.md) and the state of the running process (its position, the  *)
(* combined frame, the token list, the report buffer, the open figures,    *)
(* what it printed).  A string is modelled as the sequence of its atoms:   *)
(* words, punctuation marks and blanks.                                    *)
(***************************************************************************)
EXTENDS Integers, Sequences, FiniteSets, TLC

\* ------------------------------------------------------------------ bounds
\* Rows over all input files together, and the largest start time.
MaxRows == 3
MaxStart == 1

\* ------------------------------------------------------- program constants
TopWords == 10
AltWords == 5
AltPos == 3

VARIABLES
    files,       \* the *.tsv files other than all.tsv: base name -> rows
    dirOrder,    \* the order in which the directory lists *.tsv base names
    allTsv,      \* all.tsv: [exists, rows]
    reportFile,  \* nlp_report.md: [exists, sections]
    figDir,      \* whether the figures folder exists
    figs,        \* the PNG files in the figures folder
    pc,          \* position of the running process
    run,         \* "first" for the first run in this directory, then "later"
    df,          \* combined_df / df
    words,       \* the filtered token list of analyze_data
    report,      \* the report buffer of analyze_data
    openFigs,    \* matplotlib figures opened and not closed by the process
    printed,     \* the numbers printed in "Combined <n> TSV files"
    loaded,      \* len(dfs): the files loaded and concatenated by this run
    written,     \* the files this run wrote, in order
    sortMemo     \* what the library's sort answered for each key column

vars == <<files, dirOrder, allTsv, reportFile, figDir, figs, pc, run, df,
          words, report, openFigs, printed, loaded, written, sortMemo>>

\* ------------------------------------------------------------- vocabulary
FileNames == {"alice", "bob"}
AllName == "all"
Blank == " "
Punct == {",", "."}
NoFile == [exists |-> FALSE, rows |-> <<>>]
NoReport == [exists |-> FALSE, sections |-> <<>>]
NoFrequencies == {}

\* get_stopwords: the cached English stop-word set (lower case).
get_stopwords == {"the", "and", "is"}

\* ---------------------------------------------------------------- helpers
RECURSIVE Flatten(_)
Flatten(ss) == IF ss = <<>> THEN <<>> ELSE Head(ss) \o Flatten(Tail(ss))

RECURSIVE SumSeq(_)
SumSeq(s) == IF s = <<>> THEN 0 ELSE Head(s) + SumSeq(Tail(s))

SeqMax(s) == CHOOSE x \in {s[i] : i \in DOMAIN s} : \A i \in DOMAIN s : s[i] <= x
SeqMin(s) == CHOOSE x \in {s[i] : i \in DOMAIN s} : \A i \in DOMAIN s : x <= s[i]

Column(t, c) == [i \in DOMAIN t |-> t[i][c]]

Perms(n) == {p \in [1..n -> 1..n] : \A i, j \in 1..n : p[i] = p[j] => i = j}

Permute(t, p) == [i \in DOMAIN t |-> t[p[i]]]

\* -------------------------------------------------------- process_tsv_files
Exists(name) == IF name = AllName THEN allTsv.exists ELSE name \in DOMAIN files

\* glob.glob("*.tsv"): the matching files, in directory order.  The order is
\* arbitrary but belongs to the directory: creating all.tsv, the figures
\* folder or the report does not reorder the entries already there.
Glob == SelectSeq(dirOrder, LAMBDA n : Exists(n))

\* A faulty variant: all.tsv is not excluded.
IsInputAny(file) == TRUE

\* if file != "all.tsv"
IsInput(file) == file # AllName

\* The raw rows of a file; all.tsv holds the columns of an earlier table.
FileRows(file) ==
    IF file = AllName
    THEN [i \in DOMAIN allTsv.rows |->
            [text |-> allTsv.rows[i].text, start |-> allTsv.rows[i].start,
             end |-> allTsv.rows[i].end]]
    ELSE files[file]

\* The cells pandas reads as a missing value (its default na_values).
NaValues == {<<>>, <<"nan">>, <<"NA">>}

IsNa(cell) == cell \in NaValues

NaN == [isna |-> TRUE, s |-> <<>>]

\* pd.read_csv on a text cell: NaN for a missing value, else the string.
ParseText(cell) == IF IsNa(cell) THEN NaN ELSE [isna |-> FALSE, s |-> cell]

\* pd.read_csv(file, sep="\t") and df["person"] = splitext(file)[0]
LoadFile(file) ==
    [i \in DOMAIN FileRows(file) |->
        [person |-> file, text |-> ParseText(FileRows(file)[i].text),
         start |-> FileRows(file)[i].start, end |-> FileRows(file)[i].end]]

\* The loop over tsv_files: one frame per file that is not all.tsv.
Dfs(tsv_files) ==
    LET kept == SelectSeq(tsv_files, LAMBDA f : IsInput(f))
    IN [i \in DOMAIN kept |-> LoadFile(kept[i])]

\* A faulty variant: an empty collection concatenates to an empty frame.
ConcatNeverFails(dfs) == FALSE

\* pd.concat raises ValueError on an empty list of frames.
ConcatFails(dfs) == dfs = <<>>

\* pd.concat(dfs, ignore_index=True)
Concat(dfs) == Flatten(dfs)

\* The permutations that order a key column ascending.
SortedPerms(keys) ==
    {p \in Perms(Len(keys)) :
        \A i \in 1..(Len(keys) - 1) : keys[p[i]] <= keys[p[i + 1]]}

\* A faulty variant: the sort may answer differently for the same key column.
SortChoiceAny(memo, keys, p) == TRUE

\* sort_values("start") uses pandas' default kind, quicksort: the order of
\* equal keys is not specified, but the same key column sorts the same way.
SortChoice(memo, keys, p) == \A m \in memo : m.keys = keys => m.perm = p

\* A faulty variant: ids from range(0, len).
InsertIdFromZero(t) ==
    [i \in DOMAIN t |->
        [id |-> i - 1, person |-> t[i].person, text |-> t[i].text,
         start |-> t[i].start, end |-> t[i].end]]

\* combined_df.insert(0, "id", range(1, len(combined_df) + 1)) and the
\* column selection.
InsertId(t) ==
    [i \in DOMAIN t |->
        [id |-> i, person |-> t[i].person, text |-> t[i].text,
         start |-> t[i].start, end |-> t[i].end]]

\* combined_df["duration"] = combined_df["end"] - combined_df["start"]
AddDuration(t) ==
    [i \in DOMAIN t |->
        [id |-> t[i].id, person |-> t[i].person, text |-> t[i].text,
         start |-> t[i].start, end |-> t[i].end,
         duration |-> t[i].end - t[i].start]]

\* to_csv: a missing value is written as an empty cell.
ToCsv(t) ==
    [exists |-> TRUE,
     rows |-> [i \in DOMAIN t |->
        [id |-> t[i].id, person |-> t[i].person,
         text |-> IF t[i].text.isna THEN <<>> ELSE t[i].text.s,
         start |-> t[i].start, end |-> t[i].end, duration |-> t[i].duration]]]

\* The number in the message "Combined <n> TSV files into 'all.tsv'".
PrintedCount(tsv_files) == Len(tsv_files) - 1

process_tsv_files ==
    /\ pc = "start"
    /\ LET tsv_files == Glob
           dfs == Dfs(tsv_files)
       IN IF ConcatFails(dfs)
          THEN /\ pc' = "error"
               /\ loaded' = Len(dfs)
               /\ UNCHANGED <<allTsv, df, printed, written, sortMemo>>
          ELSE LET concat == Concat(dfs)
                   keys == Column(concat, "start")
               IN \E p \in SortedPerms(keys) :
                    /\ SortChoice(sortMemo, keys, p)
                    /\ sortMemo' = sortMemo \cup {[keys |-> keys, perm |-> p]}
                    /\ df' = AddDuration(InsertId(Permute(concat, p)))
                    /\ allTsv' = ToCsv(df')
                    /\ written' = Append(written, "all.tsv")
                    /\ printed' = Append(printed, PrintedCount(tsv_files))
                    /\ loaded' = Len(dfs)
                    /\ pc' = "speaker"
    /\ UNCHANGED <<files, dirOrder, reportFile, figDir, figs, run, words,
                   report, openFigs>>

\* ------------------------------------------------------------ create_figure
FigureOutcomes == {"ok", "plot_raises", "makedirs_raises", "savefig_raises"}

\* plt.close() is the statement after plt.savefig(...): it runs only when
\* plot_func(), os.makedirs and plt.savefig all returned.
FigureClosed(outcome) == outcome = "ok"

\* os.makedirs("figures") runs when the folder is absent and plot_func()
\* returned.
FolderAfter(outcome) ==
    figDir \/ outcome \in {"ok", "savefig_raises"}

\* The string create_figure returns: the image reference and the alt text.
FigureSection(sec, filename, alt_text) ==
    [sec |-> sec, data |-> [file |-> filename, alt |-> alt_text]]

\* create_figure(plot_func, filename, alt_text), called with the report buffer
\* `buffer`; on success the process goes on at `next`.
create_figure(buffer, sec, filename, alt_text, outcome, next) ==
    /\ outcome = "makedirs_raises" => ~figDir
    /\ openFigs' = IF FigureClosed(outcome) THEN openFigs ELSE openFigs + 1
    /\ figDir' = FolderAfter(outcome)
    /\ figs' = IF outcome = "ok" THEN figs \cup {filename} ELSE figs
    /\ written' = IF outcome = "ok" THEN Append(written, filename) ELSE written
    /\ report' = IF outcome = "ok"
                 THEN Append(buffer, FigureSection(sec, filename, alt_text))
                 ELSE buffer
    /\ pc' = IF outcome = "ok" THEN next ELSE "error"

\* -------------------------------------------------------------- analyze_data
Glossary == [sec |-> "glossary", data |-> <<>>]

\* The numbers of the "Basic Statistics" section, as computed (milliseconds;
\* the mean is kept as the sum and the count it is taken over).  The max or
\* min of an empty column is NaN.
BasicStatistics(d) ==
    [sec |-> "basic",
     data |-> IF d = <<>> THEN <<>>
              ELSE [total_duration |->
                        SeqMax(Column(d, "end")) - SeqMin(Column(d, "start")),
                    segments |-> Len(d),
                    duration_sum |-> SumSeq(Column(d, "duration")),
                    earliest |-> SeqMin(Column(d, "start")),
                    latest |-> SeqMax(Column(d, "end"))]]

\* Counter(ws)[w]
Count(ws, w) == Cardinality({i \in DOMAIN ws : ws[i] = w})

\* The keys of Counter(ws), in insertion (first occurrence) order.
CounterKeys(ws) ==
    SelectSeq([i \in DOMAIN ws |->
                 IF \E j \in 1..(i - 1) : ws[j] = ws[i] THEN Blank ELSE ws[i]],
              LAMBDA w : w # Blank)

RemoveAt(s, i) == SubSeq(s, 1, i - 1) \o SubSeq(s, i + 1, Len(s))

\* Counter.most_common(k): by count, descending; equal counts in insertion
\* order.
RECURSIVE MostCommonOf(_, _, _)
MostCommonOf(keys, ws, k) ==
    IF k = 0 \/ keys = <<>> THEN <<>>
    ELSE LET best == CHOOSE i \in DOMAIN keys :
                        \A j \in DOMAIN keys :
                            \/ Count(ws, keys[j]) < Count(ws, keys[i])
                            \/ Count(ws, keys[j]) = Count(ws, keys[i]) /\ i <= j
         IN <<[key |-> keys[best], n |-> Count(ws, keys[best])]>>
            \o MostCommonOf(RemoveAt(keys, best), ws, k - 1)

MostCommon(ws, k) == MostCommonOf(CounterKeys(ws), ws, k)

\* df["person"].value_counts(): speaker -> segment count (the order of the
\* table's lines is not modelled).
SpeakerCounts(d) ==
    [s \in {d[i].person : i \in DOMAIN d} |-> Count(Column(d, "person"), s)]

\* A faulty variant: the statistics are appended before the glossary.
SpeakerSectionsSwapped(d) ==
    <<BasicStatistics(d), Glossary,
      [sec |-> "speaker_table", data |-> SpeakerCounts(d)]>>

\* The sections appended before the first chart.
SpeakerSections(d) ==
    <<Glossary, BasicStatistics(d),
      [sec |-> "speaker_table", data |-> SpeakerCounts(d)]>>

\* Lines 63-105: glossary, basic statistics, speaker table, speaker chart.
analyze_data_speakers ==
    /\ pc = "speaker"
    /\ \E outcome \in FigureOutcomes :
          create_figure(report \o SpeakerSections(df), "speaker_chart",
                        "speaker_distribution.png", SpeakerCounts(df),
                        outcome, "text")
    /\ UNCHANGED <<files, dirOrder, allTsv, reportFile, run, df, words,
                   printed, loaded, sortMemo>>

\* astype(str): NaN becomes the string "nan".
AsTypeStr(v) == IF v.isna THEN <<"nan">> ELSE v.s

\* A faulty variant: no replacement of "nan".
ReplaceNanNoop(s) == s

\* Series.replace("nan", ""): a value that is exactly "nan" becomes "".
ReplaceNan(s) == IF s = <<"nan">> THEN <<>> ELSE s

\* df["text"] after lines 108-109.
TextColumn(d) == [i \in DOMAIN d |-> ReplaceNan(AsTypeStr(d[i].text))]

\* " ".join(strs)
RECURSIVE JoinBlank(_)
JoinBlank(strs) ==
    IF strs = <<>> THEN <<>>
    ELSE IF Len(strs) = 1 THEN Head(strs)
    ELSE Head(strs) \o <<Blank>> \o JoinBlank(Tail(strs))

\* str.lower(), per atom.
LowerAtom(a) ==
    CASE a = "Hello" -> "hello"
      [] a = "The" -> "the"
      [] OTHER -> a

Lower(s) == [i \in DOMAIN s |-> LowerAtom(s[i])]

\* word_tokenize: the words and punctuation marks, without the blanks.
word_tokenize(s) == SelectSeq(s, LAMBDA a : a # Blank)

\* str.isalnum()
IsAlnum(tok) == tok \notin Punct /\ tok # Blank

\* A faulty variant: every token is kept.
KeepWordAll(word, stop_words) == TRUE

\* word.isalnum() and word not in stop_words
KeepWord(word, stop_words) == IsAlnum(word) /\ word \notin stop_words

\* Lines 110-114.
FilteredWords(texts) ==
    SelectSeq(word_tokenize(Lower(JoinBlank(texts))),
              LAMBDA w : KeepWord(w, get_stopwords))

\* Lines 108-122: the text column, the token list, the word-frequency table.
analyze_data_text ==
    /\ pc = "text"
    /\ df' = [i \in DOMAIN df |->
                [df[i] EXCEPT !.text = [isna |-> FALSE, s |-> TextColumn(df)[i]]]]
    /\ words' = FilteredWords(TextColumn(df))
    /\ report' = Append(report,
                    [sec |-> "word_table", data |-> MostCommon(words', TopWords)])
    /\ pc' = "wordcloud"
    /\ UNCHANGED <<files, dirOrder, allTsv, reportFile, figDir, figs, run,
                   openFigs, printed, loaded, written, sortMemo>>

\* WordCloud.generate_from_frequencies raises ValueError when given no word.
WordCloudFails(ws) == {ws[i] : i \in DOMAIN ws} = NoFrequencies

\* Lines 125-135: the word cloud and its chart.
analyze_data_wordcloud ==
    /\ pc = "wordcloud"
    /\ IF WordCloudFails(words)
       THEN /\ pc' = "error"
            /\ UNCHANGED <<figDir, figs, report, openFigs, written>>
       ELSE \E outcome \in FigureOutcomes :
               create_figure(report, "wordcloud_chart", "wordcloud.png",
                             Column(MostCommon(words, AltWords), "key"),
                             outcome, "pos")
    /\ UNCHANGED <<files, dirOrder, allTsv, reportFile, run, df, words,
                   printed, loaded, sortMemo>>

\* pos_tag: the tag of each word (the tagger is modelled per word).
TagOf(w) ==
    CASE w \in {"hello", "world", "banana", "nan"} -> "NN"
      [] w \in {"one", "two", "three", "four"} -> "CD"
      [] w \in {"five", "six"} -> "VB"
      [] OTHER -> "JJ"

\* pos_descriptions.get(pos, "Other")
PosDescription(pos) ==
    CASE pos = "NN" -> "Noun, singular"
      [] pos = "NNS" -> "Noun, plural"
      [] pos = "VB" -> "Verb, base form"
      [] pos = "VBD" -> "Verb, past tense"
      [] pos = "JJ" -> "Adjective"
      [] pos = "RB" -> "Adverb"
      [] pos = "IN" -> "Preposition or subordinating conjunction"
      [] pos = "DT" -> "Determiner"
      [] OTHER -> "Other"

\* The tags of pos_tag(words), in order.
PosTags(ws) == [i \in DOMAIN ws |-> TagOf(ws[i])]

\* The lines of the POS table: pos_counts.most_common() with descriptions.
PosTable(ws) ==
    LET ranked == MostCommon(PosTags(ws), Len(ws))
    IN [i \in DOMAIN ranked |->
          [key |-> ranked[i].key, n |-> ranked[i].n,
           description |-> PosDescription(ranked[i].key)]]

\* Lines 138-168: the POS table and its chart.
analyze_data_pos ==
    /\ pc = "pos"
    /\ \E outcome \in FigureOutcomes :
          create_figure(Append(report, [sec |-> "pos_table", data |-> PosTable(words)]),
                        "pos_chart", "pos_distribution.png",
                        MostCommon(PosTags(words), AltPos), outcome, "write")
    /\ UNCHANGED <<files, dirOrder, allTsv, reportFile, run, df, words,
                   printed, loaded, sortMemo>>

\* ---------------------------------------------------------------------- main
\* with open("nlp_report.md", "w") as f: f.write(report)
main_write_report ==
    /\ pc = "write"
    /\ reportFile' = [exists |-> TRUE, sections |-> report]
    /\ written' = Append(written, "nlp_report.md")
    /\ pc' = "done"
    /\ UNCHANGED <<files, dirOrder, allTsv, figDir, figs, run, df, words,
                   report, openFigs, printed, loaded, sortMemo>>

\* The program is run again in the same directory: a new process.
run_again ==
    /\ pc \in {"done", "error"}
    /\ pc' = "start"
    /\ run' = "later"
    /\ df' = <<>>
    /\ words' = <<>>
    /\ report' = <<>>
    /\ openFigs' = 0
    /\ printed' = <<>>
    /\ loaded' = 0
    /\ written' = <<>>
    /\ UNCHANGED <<files, dirOrder, allTsv, reportFile, figDir, figs, sortMemo>>

\* ---------------------------------------------------------------------- Init
\* An all.tsv left in the directory by something else.
StaleAll ==
    [exists |-> TRUE,
     rows |-> <<[id |-> 1, person |-> "carol", text |-> <<"old">>,
                 start |-> 0, end |-> 1, duration |-> 1]>>]

RECURSIVE RowTotal(_, _)
RowTotal(f, S) ==
    IF S = {} THEN 0
    ELSE LET x == CHOOSE x \in S : TRUE
         IN Len(f[x]) + RowTotal(f, S \ {x})

\* The sets of input files with the given rows: each file has a header and at
\* least one row.
InputSets(names, rows) ==
    {f \in UNION {[S -> UNION {[1..n -> rows] : n \in 1..MaxRows}] :
                    S \in SUBSET names} :
        RowTotal(f, DOMAIN f) <= MaxRows}

DirOrders ==
    {o \in [1..3 -> FileNames \cup {AllName}] :
        \A i, j \in 1..3 : o[i] = o[j] => i = j}

\* Rows that differ in their times only.
TimedRows ==
    {[text |-> <<"hello">>, start |-> s, end |-> s + 1] : s \in 0..MaxStart}

\* The text cells of a transcript: empty, the word pandas reads as missing,
\* mixed case with stop words, punctuation and the word "nan" among others,
\* and eleven distinct words.
TextCells ==
    {<<>>, <<"nan">>,
     <<"Hello", Blank, "The", Blank, "world", ",", Blank, "and", Blank,
       "banana", Blank, "nan", ".">>,
     <<"hello", Blank, "one", Blank, "two", Blank, "three", Blank, "four",
       Blank, "five", Blank, "six", Blank, "seven", Blank, "eight", Blank,
       "nine", Blank, "ten", Blank, "hello">>}

TextRows == {[text |-> c, start |-> 0, end |-> 1] : c \in TextCells}

ProcessStart ==
    /\ reportFile = NoReport
    /\ figDir = FALSE
    /\ figs = {}
    /\ pc = "start"
    /\ run = "first"
    /\ df = <<>>
    /\ words = <<>>
    /\ report = <<>>
    /\ openFigs = 0
    /\ printed = <<>>
    /\ loaded = 0
    /\ written = <<>>
    /\ sortMemo = {}

Init ==
    /\ files \in InputSets(FileNames, TimedRows)
    /\ dirOrder \in DirOrders
    /\ allTsv \in {NoFile, StaleAll}
    /\ ProcessStart

InitText ==
    /\ files \in InputSets({"alice"}, TextRows)
    /\ dirOrder = <<"alice", AllName, "bob">>
    /\ allTsv = NoFile
    /\ ProcessStart

Next ==
    \/ process_tsv_files
    \/ analyze_data_speakers
    \/ analyze_data_text
    \/ analyze_data_wordcloud
    \/ analyze_data_pos
    \/ main_write_report
    \/ run_again

Spec == Init /\ [][Next]_vars

SpecText == InitText /\ [][Next]_vars

\* =================================================================== claims
\* process_tsv_files has returned in this run.
Combined == written # <<>>

\* The text cell to_csv writes for an input cell.
CsvText(cell) == IF IsNa(cell) THEN <<>> ELSE cell

\* How often the input file `person` holds a row like the table row r.
TimesInInput(person, r) ==
    IF person \notin DOMAIN files THEN 0
    ELSE Cardinality({k \in DOMAIN files[person] :
            /\ files[person][k].start = r.start
            /\ files[person][k].end = r.end
            /\ CsvText(files[person][k].text) = r.text})

TimesInTable(t, r) ==
    Cardinality({j \in DOMAIN t :
        /\ t[j].person = r.person
        /\ t[j].start = r.start
        /\ t[j].end = r.end
        /\ t[j].text = r.text})

\* C1: the combined table (returned, and written to all.tsv) has as many rows
\* as the input files other than all.tsv have together; every input row is in
\* it as often as in its file, and no row of an all.tsv that was already there.
C1_RowCount ==
    Combined =>
        /\ Len(df) = RowTotal(files, DOMAIN files)
        /\ Len(allTsv.rows) = RowTotal(files, DOMAIN files)
        /\ \A i \in DOMAIN allTsv.rows :
              TimesInTable(allTsv.rows, allTsv.rows[i])
                  = TimesInInput(allTsv.rows[i].person, allTsv.rows[i])

\* A later run, with the all.tsv of the run before in the directory, has
\* combined two input files.
C1_Witness ==
    /\ Combined
    /\ run = "later"
    /\ DOMAIN files = FileNames
    /\ Len(df) = MaxRows

IsSorted(keys) == \A i \in 1..(Len(keys) - 1) : keys[i] <= keys[i + 1]

\* C2: the id column of the combined table is 1, 2, ..., N, and the rows in id
\* order have non-decreasing start values.
C2_DenseIdsSorted ==
    Combined =>
        /\ \A i \in DOMAIN df : df[i].id = i
        /\ \A i \in DOMAIN allTsv.rows : allTsv.rows[i].id = i
        /\ IsSorted(Column(df, "start"))
        /\ IsSorted(Column(allTsv.rows, "start"))

\* The concatenation was not in start order: the sort moved rows.
C2_Witness ==
    /\ Combined
    /\ Len(df) >= 2
    /\ ~IsSorted(Column(Concat(Dfs(Glob)), "start"))

\* C3: a later run on the unchanged input files writes the all.tsv and the
\* report the run before wrote: all.tsv is not ingested, and the rows, those
\* with equal start among them, come in the same order.
C3_RerunIdentical ==
    [][/\ (run = "later" /\ pc = "start" /\ pc' = "speaker")
            => allTsv' = allTsv
       /\ (run = "later" /\ pc = "write" /\ pc' = "done" /\ reportFile.exists)
            => reportFile' = reportFile]_vars

\* A later run has finished on files that hold rows with equal start.
C3_Witness ==
    /\ run = "later"
    /\ pc = "done"
    /\ reportFile.exists
    /\ \E i, j \in DOMAIN df :
          df[i].start = df[j].start /\ df[i].person # df[j].person

\* C4: with no *.tsv file other than all.tsv the run ends with an error, and
\* writes neither all.tsv nor nlp_report.md.
C4_NoInputFails ==
    DOMAIN files = {} =>
        /\ pc \in {"start", "error"}
        /\ written = <<>>
        /\ allTsv \in {NoFile, StaleAll}
        /\ ~reportFile.exists

\* Only all.tsv was in the directory, and the run has failed.
C4_Witness ==
    /\ DOMAIN files = {}
    /\ allTsv = StaleAll
    /\ pc = "error"

\* C5: in analyze_data a row whose text is missing adds no token, and a row
\* whose text is present adds the tokens of its text: the token list, and the
\* word-frequency table made of it, are those of the present texts alone.
C5_MissingTextIsEmpty ==
    [][(pc = "text" /\ pc' = "wordcloud") =>
        LET present == Flatten([i \in DOMAIN df |->
                          IF df[i].text.isna THEN <<>>
                          ELSE FilteredWords(<<df[i].text.s>>)])
        IN /\ words' = present
           /\ report'[Len(report')].data = MostCommon(present, TopWords)
           /\ \A i \in DOMAIN df : df[i].text.isna => df'[i].text.s = <<>>]_vars

\* The text step has run on a table with a missing text and a present one.
C5_Witness ==
    /\ pc = "wordcloud"
    /\ words # <<>>
    /\ \E i \in DOMAIN allTsv.rows : allTsv.rows[i].text = <<>>
    /\ \E i \in DOMAIN files["alice"] : files["alice"][i].text = <<"nan">>

Reportable(w) == w \notin get_stopwords /\ w \notin Punct /\ w # Blank

\* C6: no token of the top-10 word-frequency table, and none of the top-5
\* tokens of the word-cloud alt text, is a stop word or a non-alphanumeric
\* token.
C6_TopWordsFiltered ==
    \A k \in DOMAIN report :
        /\ report[k].sec = "word_table" =>
              /\ Len(report[k].data) <= TopWords
              /\ \A e \in DOMAIN report[k].data :
                    Reportable(report[k].data[e].key)
        /\ report[k].sec = "wordcloud_chart" =>
              /\ Len(report[k].data.alt) <= AltWords
              /\ \A e \in DOMAIN report[k].data.alt :
                    Reportable(report[k].data.alt[e])

\* The texts held a stop word and punctuation and more than ten distinct
\* words: both lists were cut.
C6_Witness ==
    /\ \E k \in DOMAIN report :
          report[k].sec = "word_table" /\ Len(report[k].data) = TopWords
    /\ \E k \in DOMAIN report :
          report[k].sec = "wordcloud_chart" /\ Len(report[k].data.alt) = AltWords
    /\ \E i \in DOMAIN df :
          \E a, b \in DOMAIN df[i].text.s :
              df[i].text.s[a] = "The" /\ df[i].text.s[b] = ","

\* The permutation a stable sort answers.
StablePerm(keys) ==
    CHOOSE p \in SortedPerms(keys) :
        \A i, j \in DOMAIN keys :
            (i < j /\ keys[p[i]] = keys[p[j]]) => p[i] < p[j]

\* C7: the sort is stable: rows with equal start are in the combined table in
\* the order they had in the concatenation of the files in read order.
C7_StableSort ==
    Combined =>
        LET concat == Concat(Dfs(Glob))
            stable == Permute(concat, StablePerm(Column(concat, "start")))
        IN /\ Column(allTsv.rows, "person") = Column(stable, "person")
           /\ Column(allTsv.rows, "start") = Column(stable, "start")

\* C8: on every outcome of create_figure, the figure it opened is closed when
\* the step ends.
C8_FigureClosed == openFigs = 0

IsPrefix(s, t) == Len(s) <= Len(t) /\ \A i \in DOMAIN s : s[i] = t[i]

SectionOrder ==
    <<"glossary", "basic", "speaker_table", "speaker_chart", "word_table",
      "wordcloud_chart", "pos_table", "pos_chart">>

WriteOrder ==
    <<"all.tsv", "speaker_distribution.png", "wordcloud.png",
      "pos_distribution.png", "nlp_report.md">>

\* C9: the sections are appended in the fixed order; nlp_report.md is written
\* once, after all.tsv and the three charts; a run that fails does not write
\* it, and what it wrote before is still there.
C9_ReportOrder ==
    /\ IsPrefix(Column(report, "sec"), SectionOrder)
    /\ IsPrefix(written, WriteOrder)
    /\ pc = "done" =>
          /\ written = WriteOrder
          /\ Column(reportFile.sections, "sec") = SectionOrder
          /\ reportFile.sections = report
    /\ pc = "error" =>
          /\ Len(written) < Len(WriteOrder)
          /\ run = "first" => ~reportFile.exists
    /\ \A i \in DOMAIN written :
          CASE written[i] = "all.tsv" -> allTsv.exists
            [] written[i] = "nlp_report.md" -> reportFile.exists
            [] OTHER -> figDir /\ written[i] \in figs

\* A run fails at the second chart: all.tsv and the first chart are there,
\* and the report is the one an earlier run wrote.
C9_Witness ==
    /\ pc = "error"
    /\ written = <<"all.tsv", "speaker_distribution.png">>
    /\ reportFile.exists
    /\ Len(report) = 5

\* C10: the number printed in "Combined <n> TSV files into 'all.tsv'" is the
\* number of files loaded and concatenated by the run.
C10_PrintedCount == printed # <<>> => printed[1] = loaded

====
